---- MODULE Spec2Model ----
(***************************************************************************)
(* winereg: the _winreg interface implemented by shelling out to Wine's    *)
(* regedit.  The model has three layers, each with its own specification:  *)
(*   SpecCodec - the value codec (_map_type, _map_data and inverses)      *)
(*   SpecKey   - the PyHKEY methods of one key object against the tool     *)
(*   Spec      - the WineReg API: handles, lookup, the sixteen operations  *)
(* A Python 2 str is a sequence of bytes; the model writes it as a         *)
(* sequence of integers 0..255 (ord/chr are the identity on them).         *)
(***************************************************************************)
EXTENDS Integers, Sequences, FiniteSets, TLC

(* ------------------------------ bounds -------------------------------- *)
MaxStrLen == 2      \* longest byte string drawn as a value
MaxListLen == 2     \* longest REG_MULTI_SZ list drawn
MaxKeyOps == 2      \* method calls made on the key object
MaxDepth == 2       \* path segments join may add below a hive
MaxIndex == 2       \* largest index passed to nth_subkey / nth_value
MaxOps == 3         \* API calls made on the WineReg instance
MaxHandles == 2     \* handles CreateKey / OpenKey may add to the seven hives

(* ------------------------- program constants -------------------------- *)
REG_NONE == 0
REG_SZ == 1
REG_EXPAND_SZ == 2
REG_BINARY == 3
REG_DWORD == 4
REG_DWORD_LITTLE_ENDIAN == 4
REG_DWORD_BIG_ENDIAN == 5
REG_MULTI_SZ == 7

\* characters that the source names in its literals
NL == 10
QUOTE == 34
LPAREN == 40
RPAREN == 41
COMMA == 44
MINUS == 45
ZERO == 48
COLON == 58
EQUALS == 61
AT == 64
LBRACKET == 91
BSLASH == 92
RBRACKET == 93

S_dword == <<100, 119, 111, 114, 100, 58>>        \* "dword:"
S_hex == <<104, 101, 120, 58>>                    \* "hex:"
S_hex7 == <<104, 101, 120, 40, 55, 41, 58>>       \* "hex(7):"
S_hex2 == <<104, 101, 120, 40, 50, 41, 58>>       \* "hex(2):"
S_00 == <<48, 48>>                                \* "00"

_ROOT_KEYS == <<
    <<72, 75, 69, 89, 95, 67, 76, 65, 83, 83, 69, 83, 95, 82, 79, 79, 84>>,
    <<72, 75, 69, 89, 95, 67, 85, 82, 82, 69, 78, 84, 95, 67, 79, 78, 70, 73, 71>>,
    <<72, 75, 69, 89, 95, 67, 85, 82, 82, 69, 78, 84, 95, 85, 83, 69, 82>>,
    <<72, 75, 69, 89, 95, 68, 89, 78, 95, 68, 65, 84, 65>>,
    <<72, 75, 69, 89, 95, 76, 79, 67, 65, 76, 95, 77, 65, 67, 72, 73, 78, 69>>,
    <<72, 75, 69, 89, 95, 80, 69, 82, 70, 79, 82, 77, 65, 78, 67, 69, 95, 68, 65, 84, 65>>,
    <<72, 75, 69, 89, 95, 85, 83, 69, 82, 83>> >>

(* ------------------------- results of a call -------------------------- *)
\* A call either returns a value or raises; err names the exception class.
Ok(v) == [err |-> "none", val |-> v]
Raise(e) == [err |-> e, val |-> <<>>]

\* F applied to the value of v, v evaluated once (a local variable)
With(v, F(_)) == CHOOSE r \in {F(x) : x \in {v}} : TRUE

(* ----------------------- Python string methods ------------------------ *)
RECURSIVE Concat(_)
Concat(ss) == IF ss = <<>> THEN <<>> ELSE Head(ss) \o Concat(Tail(ss))

\* sep.join(parts)
RECURSIVE Join(_, _)
Join(sep, parts) ==
    IF parts = <<>> THEN <<>>
    ELSE IF Len(parts) = 1 THEN parts[1]
    ELSE parts[1] \o sep \o Join(sep, Tail(parts))

\* s.startswith(p) at offset i (1-based)
MatchAt(s, p, i) ==
    /\ i + Len(p) - 1 <= Len(s)
    /\ \A k \in 1..Len(p) : s[i + k - 1] = p[k]

\* s.find(sep): the least 1-based index of an occurrence, 0 when there is none
Find(s, sep) ==
    With({i \in 1..Len(s) : MatchAt(s, sep, i)}, LAMBDA hits :
        IF hits = {} THEN 0 ELSE CHOOSE i \in hits : \A j \in hits : i <= j)

\* s.split(sep) for a non-empty separator
RECURSIVE Split(_, _)
Split(s, sep) ==
    With(Find(s, sep), LAMBDA i :
        IF i = 0 THEN <<s>>
        ELSE With(SubSeq(s, i + Len(sep), Len(s)), LAMBDA rest :
                <<SubSeq(s, 1, i - 1)>> \o Split(rest, sep)))

\* s.strip(chars)
RECURSIVE LStrip(_, _)
LStrip(s, chars) ==
    IF s # <<>> /\ Head(s) \in chars THEN LStrip(Tail(s), chars) ELSE s

RECURSIVE RStrip(_, _)
RStrip(s, chars) ==
    IF s # <<>> /\ s[Len(s)] \in chars THEN RStrip(SubSeq(s, 1, Len(s) - 1), chars) ELSE s

Strip(s, chars) == RStrip(LStrip(s, chars), chars)

Whitespace == {9, 10, 11, 12, 13, 32}

\* s.rjust(width, fill)
RECURSIVE RJust(_, _, _)
RJust(s, width, fill) == IF Len(s) >= width THEN s ELSE RJust(<<fill>> \o s, width, fill)

(* ----------------------------- hex / int ------------------------------ *)
HexChar(d) == IF d < 10 THEN 48 + d ELSE 87 + d

\* hex(n)[2:] for n >= 0
RECURSIVE HexStr(_)
HexStr(n) == IF n < 16 THEN <<HexChar(n)>> ELSE HexStr(n \div 16) \o <<HexChar(n % 16)>>

IsHexDigit(c) == (c \in 48..57) \/ (c \in 97..102) \/ (c \in 65..70)

HexVal(c) == IF c \in 48..57 THEN c - 48 ELSE IF c \in 97..102 THEN c - 87 ELSE c - 55

RECURSIVE HexNum(_)
HexNum(s) == IF s = <<>> THEN 0 ELSE 16 * HexNum(SubSeq(s, 1, Len(s) - 1)) + HexVal(s[Len(s)])

\* int(s, 16): ValueError on the empty string and on any non-digit
Int16(s) ==
    IF s # <<>> /\ \A i \in 1..Len(s) : IsHexDigit(s[i]) THEN Ok(HexNum(s)) ELSE Raise("ValueError")

\* chr(int(c, 16)) for one piece
ChrInt16(c) ==
    With(Int16(c), LAMBDA r :
        IF r.err # "none" THEN r
        ELSE IF r.val > 255 THEN Raise("ValueError") ELSE r)

(* ------------------------------ the codec ----------------------------- *)
DwordTypes == {REG_DWORD, REG_DWORD_LITTLE_ENDIAN, REG_DWORD_BIG_ENDIAN}

_map_type(type) ==
    IF type = REG_SZ THEN Ok(<<>>)
    ELSE IF type \in DwordTypes THEN Ok(S_dword)
    ELSE IF type = REG_BINARY THEN Ok(S_hex)
    ELSE IF type = REG_MULTI_SZ THEN Ok(S_hex7)
    ELSE IF type = REG_EXPAND_SZ THEN Ok(S_hex2)
    ELSE Raise("ValueError")

\* ",".join(hex(ord(b))[2:] for b in data)
HexBytes(data) == Join(<<COMMA>>, [i \in 1..Len(data) |-> HexStr(data[i])])

_map_data(data, type) ==
    IF type = REG_SZ THEN Ok(data)
    ELSE IF type \in DwordTypes THEN Ok(RJust(HexStr(data), 8, ZERO))
    ELSE IF type = REG_BINARY THEN Ok(HexBytes(data))
    ELSE IF type = REG_MULTI_SZ THEN Ok(Join(S_00, [i \in 1..Len(data) |-> HexBytes(data[i])]))
    ELSE IF type = REG_EXPAND_SZ THEN Ok(HexBytes(data))
    ELSE Raise("ValueError")

_unmap_type(type) ==
    IF type = <<>> THEN Ok(REG_SZ)
    ELSE IF type = S_dword THEN Ok(REG_DWORD)
    ELSE IF type = S_hex THEN Ok(REG_BINARY)
    ELSE IF type = S_hex7 THEN Ok(REG_MULTI_SZ)
    ELSE IF type = S_hex2 THEN Ok(REG_EXPAND_SZ)
    ELSE Raise("ValueError")

\* "".join(chr(int(c,16)) for c in data.split(",") if c)
AllOrRaise(rs) ==
    IF \E i \in 1..Len(rs) : rs[i].err # "none" THEN Raise("ValueError")
    ELSE Ok([i \in 1..Len(rs) |-> rs[i].val])

UnhexBytes(data) ==
    With(SelectSeq(Split(data, <<COMMA>>), LAMBDA c : c # <<>>), LAMBDA pieces :
    With([i \in 1..Len(pieces) |-> ChrInt16(pieces[i])], LAMBDA rs : AllOrRaise(rs)))

_unmap_data(data, type) ==
    IF type = REG_SZ THEN Ok(data)
    ELSE IF type \in DwordTypes THEN Int16(data)
    ELSE IF type = REG_BINARY THEN UnhexBytes(data)
    ELSE IF type = REG_MULTI_SZ THEN
        With(Split(data, S_00), LAMBDA segs :
        With([i \in 1..Len(segs) |-> UnhexBytes(segs[i])], LAMBDA rs : AllOrRaise(rs)))
    ELSE IF type = REG_EXPAND_SZ THEN UnhexBytes(data)
    ELSE Raise("ValueError")

(* ------------------- the external tool (regedit) ---------------------- *)
\* The registry the tool edits: blocks in export order, each a key path and
\* its value-assignment lines exactly as they were imported.
S_REGEDIT4 == <<82, 69, 71, 69, 68, 73, 84, 52, 10>>   \* "REGEDIT4\n"

IsUnder(key, path) == key = path \/ MatchAt(key, path \o <<BSLASH>>, 1)

HasKey(st, path) == \E i \in 1..Len(st) : st[i].key = path

\* path and its ancestors, shortest first
KeyChain(path) ==
    LET cuts == {i \in 1..(Len(path) + 1) : i = Len(path) + 1 \/ path[i] = BSLASH}
        below(c) == Cardinality({d \in cuts : d < c})
    IN  [k \in 1..Cardinality(cuts) |->
            SubSeq(path, 1, (CHOOSE c \in cuts : below(c) = k - 1) - 1)]

\* the blocks of path and of its ancestors, added where they are missing
EnsureKey(st, path) ==
    With(KeyChain(path), LAMBDA chain :
        st \o [i \in 1..Len(SelectSeq(chain, LAMBDA k : ~HasKey(st, k))) |->
                 [key |-> SelectSeq(chain, LAMBDA k : ~HasKey(st, k))[i], vals |-> <<>>]])

DropValue(vals, name) == SelectSeq(vals, LAMBDA v : v.name # name)

PutValue(vals, name, line) ==
    IF \E i \in 1..Len(vals) : vals[i].name = name
    THEN [i \in 1..Len(vals) |->
            IF vals[i].name = name THEN [name |-> name, line |-> line] ELSE vals[i]]
    ELSE Append(vals, [name |-> name, line |-> line])

\* regedit <import-file>: apply one fragment
Import(st, frag) ==
    IF frag.op = "delete" THEN SelectSeq(st, LAMBDA b : ~IsUnder(b.key, frag.path))
    ELSE With(EnsureKey(st, frag.path), LAMBDA st1 :
            IF frag.op = "create" THEN st1
            ELSE [i \in 1..Len(st1) |->
                    IF st1[i].key # frag.path THEN st1[i]
                    ELSE IF frag.op = "delvalue"
                         THEN [st1[i] EXCEPT !.vals = DropValue(@, frag.name)]
                         ELSE [st1[i] EXCEPT !.vals = PutValue(@, frag.name, frag.line)]])

\* regedit /E <export-file> <key-path>: the lines of the export file
BlockLines(b) ==
    << <<NL>>, <<LBRACKET>> \o b.key \o <<RBRACKET, NL>> >>
    \o [i \in 1..Len(b.vals) |-> b.vals[i].line \o <<NL>>]

Export(st, path) ==
    With(SelectSeq(st, LAMBDA b : IsUnder(b.key, path)), LAMBDA bs :
        IF bs = <<>> THEN <<S_REGEDIT4>>
        ELSE <<S_REGEDIT4>> \o Concat([i \in 1..Len(bs) |-> BlockLines(bs[i])]) \o << <<NL>> >>)

(* ------------------------- PyHKEY: plumbing --------------------------- *)
\* The outcome of a method: the exception or value, the registry after it,
\* and the tool invocations it made (mode, file text or key path, exit ok).
Outcome(err, val, st, calls) == [err |-> err, val |-> val, store |-> st, calls |-> calls]

\* subprocess.call(...) != 0 raises WindowsError
_run_regedit(ok) == IF ok THEN "none" ELSE "WindowsError"

\* writes "REGEDIT4\n\n" + contents + "\n\n" to a temporary file and imports it
_regedit(st, frag, ok) ==
    Outcome(_run_regedit(ok), <<>>,
            IF ok THEN Import(st, frag) ELSE st,
            << [mode |-> "import",
                text |-> S_REGEDIT4 \o <<NL>> \o frag.contents \o <<NL, NL>>,
                ok |-> ok] >>)

TypeClass == (97..122) \cup (65..90) \cup (48..57) \cup {LPAREN, RPAREN}

\* the length of the run of type-token characters of s from position i
RunLen(s, i) ==
    Cardinality({j \in i..Len(s) : \A k \in i..j : s[k] \in TypeClass})

NoQuote(s, i, j) == \A k \in i..j : s[k] # QUOTE

\* re.match(r'^"?(\@|[^"]+)"?="?(([a-zA-Z0-9\(\)]+:)?)([^"]+)"?$', s):
\* every way the pattern fits s is <<q1, e, q2, q3, ty>> (opening quote taken,
\* position of the '=', closing quote of the name taken, opening quote of the
\* value taken, type token taken); the matcher returns the one its
\* backtracking order tries first.
ValFits(s) ==
    {p \in (0..1) \X {e \in 1..Len(s) : s[e] = EQUALS} \X (0..1) \X (0..1) \X (0..1) :
        LET L == Len(s)
            q4 == IF s[L] = QUOTE THEN 1 ELSE 0
            t0 == p[2] + 1 + p[4]
        IN  /\ p[1] = 1 => s[1] = QUOTE
            /\ p[2] - p[3] - p[1] - 1 >= 1
            /\ NoQuote(s, p[1] + 1, p[2] - p[3] - 1)
            /\ p[3] = 1 => s[p[2] - 1] = QUOTE
            /\ p[4] = 1 => (p[2] + 1 <= L /\ s[p[2] + 1] = QUOTE)
            /\ \E run \in {RunLen(s, t0)} :
                /\ p[5] = 1 => (run >= 1 /\ t0 + run <= L /\ s[t0 + run] = COLON)
                /\ t0 + p[5] * (run + 1) <= L - q4
                /\ NoQuote(s, t0 + p[5] * (run + 1), L - q4)}

ValRank(s, p) ==
    LET L == Len(s) + 2
        n == p[2] - p[3] - p[1] - 1
        nameRank == IF n = 1 /\ s[p[1] + 1] = AT THEN L - 1 ELSE n
    IN  ((((p[1] * L + nameRank) * 2 + p[3]) * 2 + p[4]) * 2 + p[5])

\* the groups (name, type, data) of the fit p
ValGroups(s, p) ==
    LET t0 == p[2] + 1 + p[4]
        d0 == t0 + p[5] * (RunLen(s, t0) + 1)
        q4 == IF s[Len(s)] = QUOTE THEN 1 ELSE 0
    IN  [matched |-> TRUE,
         name |-> SubSeq(s, p[1] + 1, p[2] - p[3] - 1),
         type |-> SubSeq(s, t0, d0 - 1),
         data |-> SubSeq(s, d0, Len(s) - q4)]

ValMatch(s) ==
    With({<<ValRank(s, p), p>> : p \in ValFits(s)}, LAMBDA ranked :
        IF ranked = {} THEN [matched |-> FALSE, name |-> <<>>, type |-> <<>>, data |-> <<>>]
        ELSE With(CHOOSE x \in ranked : \A y \in ranked : x[1] >= y[1], LAMBDA best :
                ValGroups(s, best[2])))

\* One item of the generator: a record (isval is "name is not None"), or
\* the exception the generator dies with at that line.
KeyRecord(key) ==
    [err |-> "none", key |-> key, isval |-> FALSE, name |-> <<>>, data |-> <<>>, type |-> REG_NONE]

ValRecord(key, m) ==
    With(_unmap_type(m.type), LAMBDA ty :
    With(IF ty.err = "none" THEN _unmap_data(m.data, ty.val) ELSE ty, LAMBDA da :
        IF da.err # "none"
        THEN [err |-> da.err, key |-> key, isval |-> TRUE, name |-> <<>>, data |-> <<>>,
              type |-> REG_NONE]
        ELSE [err |-> "none", key |-> key, isval |-> TRUE,
              name |-> IF m.name = <<AT>> THEN <<>> ELSE m.name,
              data |-> da.val, type |-> ty.val]))

\* what one line contributes: a header sets the key, a value line yields a
\* record or raises, any other line is skipped
HeaderKey(ln) == Strip(Strip(Strip(ln, Whitespace), {LBRACKET, RBRACKET}), {QUOTE})

IsHeader(ln) == ln # <<>> /\ ln[1] = LBRACKET

\* the loop of _regread over the lines after the discarded first line
RECURSIVE ParseLines(_, _, _)
ParseLines(lines, i, key) ==
    IF i > Len(lines) THEN <<>>
    ELSE IF IsHeader(lines[i])
    THEN With(HeaderKey(lines[i]), LAMBDA k : <<KeyRecord(k)>> \o ParseLines(lines, i + 1, k))
    ELSE With(Strip(lines[i], Whitespace), LAMBDA ln :
         With(ValMatch(ln), LAMBDA m :
            IF ~m.matched THEN ParseLines(lines, i + 1, key)
            ELSE With(ValRecord(key, m), LAMBDA r :
                    IF r.err # "none" THEN <<r>>
                    ELSE <<r>> \o ParseLines(lines, i + 1, key))))

\* _regread(path): the export and the items the generator yields from it
_regread(st, path, ok) ==
    [err |-> _run_regedit(ok),
     items |-> IF ok THEN With(Export(st, path), LAMBDA lines : ParseLines(lines, 2, <<>>))
               ELSE <<>>,
     calls |-> << [mode |-> "export", text |-> path, ok |-> ok] >>]

\* the items a consumer sees before the generator raises, and that exception
Yielded(items) == SelectSeq(items, LAMBDA r : r.err = "none")
Died(items) == IF items # <<>> /\ items[Len(items)].err # "none" THEN items[Len(items)].err ELSE "none"

(* -------------------------- PyHKEY: methods -------------------------- *)
\* join with the strip("\\") of line 241 left out
join_NoStrip(path, sub_key) ==
    IF sub_key = <<>> THEN [same |-> TRUE, path |-> path]
    ELSE [same |-> FALSE, path |-> path \o <<BSLASH>> \o sub_key]

\* join(sub_key): the same object (same = TRUE) or a new one with a longer path
join(path, sub_key) ==
    With(Strip(sub_key, {BSLASH}), LAMBDA sk :
        IF sk = <<>> THEN [same |-> TRUE, path |-> path]
        ELSE [same |-> FALSE, path |-> path \o <<BSLASH>> \o sk])

create(path, st, ok) ==
    _regedit(st, [op |-> "create", path |-> path, name |-> <<>>, line |-> <<>>,
                  contents |-> <<LBRACKET>> \o path \o <<RBRACKET>>], ok)

delete(path, st, ok) ==
    _regedit(st, [op |-> "delete", path |-> path, name |-> <<>>, line |-> <<>>,
                  contents |-> <<LBRACKET, MINUS>> \o path \o <<RBRACKET>>], ok)

delete_value(path, st, value, ok) ==
    _regedit(st, [op |-> "delvalue", path |-> path, name |-> value,
                  line |-> <<QUOTE>> \o value \o <<QUOTE, EQUALS, MINUS>>,
                  contents |-> <<LBRACKET>> \o path \o <<RBRACKET, NL>>
                               \o <<QUOTE>> \o value \o <<QUOTE, EQUALS, MINUS>>], ok)

\* the assignment line: @="<type><data>" or "<name>"="<type><data>"
SetLine(name, type, data) ==
    IF name = <<>>
    THEN <<AT, EQUALS, QUOTE>> \o type \o data \o <<QUOTE>>
    ELSE <<QUOTE>> \o name \o <<QUOTE, EQUALS, QUOTE>> \o type \o data \o <<QUOTE>>

set_value(path, st, name, data, type, ok) ==
    With(_map_data(data, type), LAMBDA d :
    With(_map_type(type), LAMBDA t :
        IF d.err # "none" THEN Outcome(d.err, <<>>, st, <<>>)
        ELSE IF t.err # "none" THEN Outcome(t.err, <<>>, st, <<>>)
        ELSE With(SetLine(name, t.val, d.val), LAMBDA line :
                _regedit(st, [op |-> "set", path |-> path, name |-> name, line |-> line,
                              contents |-> <<LBRACKET>> \o path \o <<RBRACKET, NL>> \o line],
                         ok))))

\* key != self.path and "\\" not in key[len(self.path)+1:]
IsChild(path, key) ==
    /\ key # path
    /\ \A k \in (Len(path) + 2)..Len(key) : key[k] # BSLASH

\* the common shape of the scanning methods: the n-th hit, else the
\* generator's exception, else the for-else WindowsError
NthOf(rr, hits, n, st, Ret(_)) ==
    IF rr.err # "none" THEN Outcome(rr.err, <<>>, st, rr.calls)
    ELSE IF Len(hits) > n THEN Outcome("none", Ret(hits[n + 1]), st, rr.calls)
    ELSE IF Died(rr.items) # "none" THEN Outcome(Died(rr.items), <<>>, st, rr.calls)
    ELSE Outcome("WindowsError", <<>>, st, rr.calls)

nth_subkey(path, st, n, ok) ==
    With(_regread(st, path, ok), LAMBDA rr :
    With(SelectSeq(Yielded(rr.items), LAMBDA r : ~r.isval /\ IsChild(path, r.key)),
         LAMBDA hits : NthOf(rr, hits, n, st, LAMBDA h : h.key)))

nth_value(path, st, n, ok) ==
    With(_regread(st, path, ok), LAMBDA rr :
    With(SelectSeq(Yielded(rr.items),
                   LAMBDA r : ~(r.key # path \/ ~r.isval \/ r.name = <<>>)),
         LAMBDA hits : NthOf(rr, hits, n, st, LAMBDA h : <<h.name, h.data, h.type>>)))

\* for ln in self._regread(self.path): break
check(path, st, ok) ==
    With(_regread(st, path, ok), LAMBDA rr :
        IF rr.err # "none" THEN Outcome(rr.err, <<>>, st, rr.calls)
        ELSE IF rr.items # <<>> /\ rr.items[1].err # "none"
             THEN Outcome(rr.items[1].err, <<>>, st, rr.calls)
        ELSE Outcome("none", <<>>, st, rr.calls))

get_info(path, st, ok) ==
    With(_regread(st, path, ok), LAMBDA rr :
    With(Yielded(rr.items), LAMBDA ys :
        IF rr.err # "none" THEN Outcome(rr.err, <<>>, st, rr.calls)
        ELSE IF Died(rr.items) # "none" THEN Outcome(Died(rr.items), <<>>, st, rr.calls)
        ELSE Outcome("none",
                     << Len(SelectSeq(ys, LAMBDA r : ~r.isval /\ IsChild(path, r.key))),
                        Len(SelectSeq(ys, LAMBDA r : r.key = path /\ r.isval)),
                        0 >>,
                     st, rr.calls)))

get_value(path, st, value_name, ok) ==
    With(_regread(st, path, ok), LAMBDA rr :
    With(SelectSeq(Yielded(rr.items),
                   LAMBDA r : r.key = path /\ r.isval /\ r.name = value_name),
         LAMBDA hits : NthOf(rr, hits, 0, st, LAMBDA h : <<h.data, h.type>>)))

\* dump(filename): the export goes to the caller's file, nothing is parsed
dump(path, st, ok) ==
    Outcome(_run_regedit(ok), <<>>, st, << [mode |-> "export", text |-> path, ok |-> ok] >>)

\* load(filename): imports the caller's file; file is the fragments it holds
RECURSIVE ImportAll(_, _, _)
ImportAll(st, frags, i) ==
    IF i > Len(frags) THEN st
    ELSE With(Import(st, frags[i]), LAMBDA st1 : ImportAll(st1, frags, i + 1))

load(path, st, file, ok) ==
    Outcome(_run_regedit(ok), <<>>, IF ok THEN ImportAll(st, file.frags, 1) ELSE st,
            << [mode |-> "import", text |-> file.name, ok |-> ok] >>)

(* ============================== state ================================= *)
VARIABLES
    original,   \* codec: the (data, type) handed to the encoder
    encoded,    \* codec: the prefix and payload produced
    decoded,    \* codec: the (data, type) recovered
    stage,      \* codec: "in", "encoded", "decoded"
    self_path,  \* key object: PyHKEY.path
    store,      \* the registry behind the tool
    last,       \* the last call: operation, arguments, outcome, tool calls
    nops,       \* calls made so far
    handles     \* WineReg: the PyHKEY objects callers hold, roots first

vars == <<original, encoded, decoded, stage, self_path, store, last, nops, handles>>
codecVars == <<original, encoded, decoded, stage>>
keyVars == <<self_path, store, last, nops>>

Seqs(S, n) == UNION {[1..k -> S] : k \in 0..n}

NoCall == [op |-> "init", args |-> <<>>, err |-> "none", val |-> <<>>, calls |-> <<>>]
Unset == [err |-> "unset"]

RootBlocks == [i \in 1..Len(_ROOT_KEYS) |-> [key |-> _ROOT_KEYS[i], vals |-> <<>>]]

CodecIdle ==
    /\ original = [data |-> <<>>, type |-> REG_NONE]
    /\ encoded = Unset
    /\ decoded = Unset
    /\ stage = "idle"

KeyIdle ==
    /\ self_path = <<>>
    /\ store = <<>>
    /\ last = NoCall
    /\ nops = 0

(* =========================== SpecCodec ================================ *)
Bytes == {0, 10, 16, 65}
ByteStrings == Seqs(Bytes, MaxStrLen)
DWords == {0, 1, 255, 4096, 65536, 2147483647}

CodecInputs ==
    ({REG_SZ, REG_EXPAND_SZ, REG_BINARY} \X ByteStrings)
    \cup ({REG_DWORD, REG_DWORD_LITTLE_ENDIAN, REG_DWORD_BIG_ENDIAN} \X DWords)
    \cup ({REG_MULTI_SZ} \X Seqs(ByteStrings, MaxListLen))
    \cup {<<REG_NONE, <<>>>>}

InitCodec ==
    /\ \E in \in CodecInputs : original = [data |-> in[2], type |-> in[1]]
    /\ encoded = Unset
    /\ decoded = Unset
    /\ stage = "in"
    /\ KeyIdle
    /\ handles = <<>>

\* set_value, lines 314-315: the payload, then the prefix
Encode ==
    /\ stage = "in"
    /\ LET d == _map_data(original.data, original.type)
           t == _map_type(original.type)
       IN  encoded' = IF d.err # "none" THEN [err |-> d.err]
                      ELSE IF t.err # "none" THEN [err |-> t.err]
                      ELSE [err |-> "none", prefix |-> t.val, payload |-> d.val]
    /\ stage' = "encoded"
    /\ UNCHANGED <<original, decoded, keyVars, handles>>

\* _regread, lines 235-236: the type from the prefix, then the data
Decode ==
    /\ stage = "encoded"
    /\ encoded.err = "none"
    /\ LET t == _unmap_type(encoded.prefix)
           d == IF t.err = "none" THEN _unmap_data(encoded.payload, t.val) ELSE t
       IN  decoded' = IF d.err # "none" THEN [err |-> d.err]
                      ELSE [err |-> "none", data |-> d.val, type |-> t.val]
    /\ stage' = "decoded"
    /\ UNCHANGED <<original, encoded, keyVars, handles>>

NextCodec == Encode \/ Decode

SpecCodec == InitCodec /\ [][NextCodec]_vars

SupportedTypes ==
    {REG_SZ, REG_EXPAND_SZ, REG_BINARY, REG_DWORD, REG_DWORD_LITTLE_ENDIAN,
     REG_DWORD_BIG_ENDIAN, REG_MULTI_SZ}

\* C1: for every supported type and every value of it, decoding what the
\* encoder produced returns exactly the original (value, type).
C1_RoundTrip ==
    (stage = "decoded" /\ original.type \in SupportedTypes) =>
        /\ decoded.err = "none"
        /\ decoded.type = original.type
        /\ decoded.data = original.data

TwoHex(b) == <<HexChar(b \div 16), HexChar(b % 16)>>

\* C9: the Binary and ExpandableString payload is the bytes in order, comma
\* separated, each as exactly two lowercase hex digits.
C9_TwoDigitHex ==
    (stage = "encoded" /\ original.type \in {REG_BINARY, REG_EXPAND_SZ}) =>
        /\ encoded.err = "none"
        /\ encoded.payload = Join(<<COMMA>>, [i \in 1..Len(original.data) |-> TwoHex(original.data[i])])

(* ============================ SpecKey ================================= *)
\* One PyHKEY object, its methods called in any order against the tool.
HKCR == _ROOT_KEYS[1]
K_a == HKCR \o <<BSLASH, 97>>            \* HKEY_CLASSES_ROOT\a
K_ab == K_a \o <<BSLASH, 98>>            \* HKEY_CLASSES_ROOT\a\b

L_default == <<AT, EQUALS, QUOTE, 100, QUOTE>>                 \* @="d"
L_x == <<QUOTE, 120, QUOTE, EQUALS, QUOTE, 104, QUOTE>>        \* "x"="h"

\* registries the program may find when it starts
InitStores ==
    { RootBlocks,
      RootBlocks \o << [key |-> K_a, vals |-> << [name |-> <<120>>, line |-> L_x] >>],
                       [key |-> K_ab, vals |-> <<>>] >>,
      RootBlocks \o << [key |-> K_a, vals |-> << [name |-> <<>>, line |-> L_default],
                                                 [name |-> <<120>>, line |-> L_x] >>] >> }

ValueNames == {<<>>, <<120>>, <<AT>>}                    \* "", "x", "@"
SzAlphabet == {97, COLON, QUOTE}                         \* a : "
SzData == Seqs(SzAlphabet, MaxStrLen)
KeySubKeys == {<<>>, <<97>>, <<BSLASH, 98, BSLASH>>}     \* "", "a", "\b\"
SzInputs == ValueNames \X SzData \X {REG_SZ}
TypedInputs ==
    << <<<<120>>, 31, REG_DWORD>>, <<<<120>>, <<0, 65>>, REG_BINARY>>,
       <<<<120>>, <<>>, REG_NONE>> >>

\* a .reg file a caller may hand to load()
Files == { [name |-> <<102>>,
            frags |-> << [op |-> "set", path |-> K_a, name |-> <<120>>, line |-> L_x,
                          contents |-> <<>>] >>] }

Depth(path) == Cardinality({i \in 1..Len(path) : path[i] = BSLASH})

InitKey ==
    /\ CodecIdle
    /\ handles = <<>>
    /\ self_path \in {HKCR, K_a}
    /\ store \in InitStores
    /\ last = NoCall
    /\ nops = 0

\* the call is recorded and its effect on the registry applied
Called(op, args, r) ==
    /\ last' = [op |-> op, args |-> args, err |-> r.err, val |-> r.val, calls |-> r.calls]
    /\ store' = r.store
    /\ nops' = nops + 1

KeyJoin ==
    /\ nops < MaxKeyOps
    /\ \E sub_key \in KeySubKeys :
        LET j == join(self_path, sub_key)
        IN  /\ Depth(j.path) <= MaxDepth
            /\ self_path' = j.path
            /\ Called("join", [sub_key |-> sub_key], Outcome("none", j, store, <<>>))
    /\ UNCHANGED <<codecVars, handles>>

KeyCreate ==
    /\ nops < MaxKeyOps
    /\ \E ok \in BOOLEAN : \E r \in {create(self_path, store, ok)} : Called("create", <<>>, r)
    /\ UNCHANGED <<codecVars, handles, self_path>>

KeyDelete ==
    /\ nops < MaxKeyOps
    /\ \E ok \in BOOLEAN : \E r \in {delete(self_path, store, ok)} : Called("delete", <<>>, r)
    /\ UNCHANGED <<codecVars, handles, self_path>>

KeyDeleteValue ==
    /\ nops < MaxKeyOps
    /\ \E ok \in BOOLEAN, name \in ValueNames :
        \E r \in {delete_value(self_path, store, name, ok)} : Called("delete_value", [name |-> name], r)
    /\ UNCHANGED <<codecVars, handles, self_path>>

KeySetValue ==
    /\ nops < MaxKeyOps
    /\ \E ok \in BOOLEAN :
        \E in \in SzInputs \cup {<<i>> : i \in 1..Len(TypedInputs)} :
            LET a == IF Len(in) = 1 THEN TypedInputs[in[1]] ELSE in
            IN  \E r \in {set_value(self_path, store, a[1], a[2], a[3], ok)} :
                    Called("set_value", [name |-> a[1], data |-> a[2], type |-> a[3]], r)
    /\ UNCHANGED <<codecVars, handles, self_path>>

KeyGetValue ==
    /\ nops < MaxKeyOps
    /\ \E ok \in BOOLEAN, name \in ValueNames :
        \E r \in {get_value(self_path, store, name, ok)} : Called("get_value", [name |-> name], r)
    /\ UNCHANGED <<codecVars, handles, self_path>>

KeyCheck ==
    /\ nops < MaxKeyOps
    /\ \E ok \in BOOLEAN : \E r \in {check(self_path, store, ok)} : Called("check", <<>>, r)
    /\ UNCHANGED <<codecVars, handles, self_path>>

KeyNthSubkey ==
    /\ nops < MaxKeyOps
    /\ \E ok \in BOOLEAN, n \in 0..MaxIndex :
        \E r \in {nth_subkey(self_path, store, n, ok)} : Called("nth_subkey", [n |-> n], r)
    /\ UNCHANGED <<codecVars, handles, self_path>>

KeyNthValue ==
    /\ nops < MaxKeyOps
    /\ \E ok \in BOOLEAN, n \in 0..MaxIndex :
        \E r \in {nth_value(self_path, store, n, ok)} : Called("nth_value", [n |-> n], r)
    /\ UNCHANGED <<codecVars, handles, self_path>>

KeyGetInfo ==
    /\ nops < MaxKeyOps
    /\ \E ok \in BOOLEAN : \E r \in {get_info(self_path, store, ok)} : Called("get_info", <<>>, r)
    /\ UNCHANGED <<codecVars, handles, self_path>>

KeyDump ==
    /\ nops < MaxKeyOps
    /\ \E ok \in BOOLEAN : \E r \in {dump(self_path, store, ok)} : Called("dump", <<>>, r)
    /\ UNCHANGED <<codecVars, handles, self_path>>

KeyLoad ==
    /\ nops < MaxKeyOps
    /\ \E ok \in BOOLEAN, file \in Files :
        \E r \in {load(self_path, store, file, ok)} : Called("load", [file |-> file.name], r)
    /\ UNCHANGED <<codecVars, handles, self_path>>

NextKey ==
    \/ KeyJoin \/ KeyCreate \/ KeyDelete \/ KeyDeleteValue \/ KeySetValue
    \/ KeyGetValue \/ KeyCheck \/ KeyNthSubkey \/ KeyNthValue \/ KeyGetInfo
    \/ KeyDump \/ KeyLoad

SpecKey == InitKey /\ [][NextKey]_vars

\* the records a successful export of the key's path parses into
Records == Yielded(_regread(store, self_path, TRUE).items)

ToolOk(call) == call.calls # <<>> /\ \A i \in 1..Len(call.calls) : call.calls[i].ok

\* C2: when the tool stores the line set_value(name, data, REG_SZ) emitted and
\* exports it verbatim, the next get_value(name) on that key returns (data, REG_SZ).
C2_WriteThenRead ==
    [][ ( /\ last.op = "set_value"
          /\ last.args.type = REG_SZ
          /\ last.err = "none"
          /\ last'.op = "get_value"
          /\ nops' = nops + 1
          /\ last'.args.name = last.args.name
          /\ ToolOk(last') )
        => ( /\ last'.err = "none"
             /\ last'.val[2] = REG_SZ
             /\ last'.val[1] = last.args.data ) ]_vars

\* one path segment deeper than path
DirectChild(path, key) ==
    /\ MatchAt(key, path \o <<BSLASH>>, 1)
    /\ Len(key) > Len(path) + 1
    /\ \A k \in (Len(path) + 2)..Len(key) : key[k] # BSLASH

ChildHeaders == SelectSeq(Records, LAMBDA r : ~r.isval /\ DirectChild(self_path, r.key))
ValueRecords == SelectSeq(Records, LAMBDA r : r.isval /\ r.key = self_path)

\* C5: with (s, v, 0) = get_info(), nth_subkey(n) is the n-th direct-child
\* header in dump order for n < s and fails for n >= s; nth_value(n) is the
\* n-th value record on the key (the default value included) for n < v and
\* fails for n >= v.
C5_EnumMatchesCounts ==
    LET info == get_info(self_path, store, TRUE)
        n == last.args.n
    IN  /\ (last.op = "nth_subkey" /\ ToolOk(last) /\ info.err = "none") =>
              IF n < info.val[1]
              THEN last.err = "none" /\ last.val = ChildHeaders[n + 1].key
              ELSE last.err = "WindowsError"
        /\ (last.op = "nth_value" /\ ToolOk(last) /\ info.err = "none") =>
              IF n < info.val[2]
              THEN /\ last.err = "none"
                   /\ last.val[1] = ValueRecords[n + 1].name
                   /\ last.val[3] = ValueRecords[n + 1].type
                   /\ last.val[2] = ValueRecords[n + 1].data
              ELSE last.err = "WindowsError"

\* C6: check() succeeds exactly when the export yields at least one record;
\* a successful export with zero records makes it fail.
C6_CheckIffRecords ==
    (last.op = "check" /\ ToolOk(last)) =>
        (last.err = "none" <=> Len(Records) >= 1)

(* ============================== Spec ================================== *)
\* The WineReg API.  handles[h] is the PyHKEY object behind handle h (the
\* object or its integer id); the seven hives are handles 1..7.
NumRoots == Len(_ROOT_KEYS)

\* WineReg.__init__: one valid PyHKEY per root key
RootHandles == [i \in 1..NumRoots |-> [path |-> _ROOT_KEYS[i], valid |-> TRUE]]

\* PyHKEY.lookup: a closed handle raises WindowsError
lookup(hs, key) == IF hs[key].valid THEN "none" ELSE "WindowsError"

\* PyHKEY.Close
Close(hs, key) == [hs EXCEPT ![key].valid = FALSE]

ApiStores ==
    { RootBlocks,
      RootBlocks \o << [key |-> K_a, vals |-> << [name |-> <<120>>, line |-> L_x] >>],
                       [key |-> K_ab, vals |-> <<>>] >> }

SubKeys == {<<>>, <<BSLASH>>, <<BSLASH, 97, BSLASH>>}      \* "", "\", "\a\"
TargetSubKeys == {<<>>, <<97>>}                            \* "", "a"
ApiName == <<120>>                                         \* "x"
ApiData == <<104>>                                         \* "h"

Init ==
    /\ CodecIdle
    /\ self_path = <<>>
    /\ handles = RootHandles
    /\ store \in ApiStores
    /\ last = NoCall
    /\ nops = 0

\* the key arguments a caller passes: the hive HKEY_CLASSES_ROOT and every
\* handle CreateKey / OpenKey returned so far
CallerRoots == {1}
KeyArgs == CallerRoots \cup ((NumRoots + 1)..Len(handles))

\* the call is recorded; r is the outcome, hs the handles after it
Api(op, args, r, hs) ==
    /\ last' = [op |-> op, args |-> args, err |-> r.err, val |-> r.val, calls |-> r.calls]
    /\ store' = r.store
    /\ handles' = hs
    /\ nops' = nops + 1
    /\ UNCHANGED <<codecVars, self_path>>

Rejected == Outcome("WindowsError", <<>>, store, <<>>)

\* new_key = lookup(key).join(sub_key); <method>(); return new_key
\* r is the outcome of create() or check() on the joined path
Opened(op, key, sub_key, j, r) ==
    IF r.err # "none" THEN Api(op, [key |-> key, sub_key |-> sub_key], r, handles)
    ELSE IF j.same THEN Api(op, [key |-> key, sub_key |-> sub_key], [r EXCEPT !.val = key], handles)
    ELSE /\ Len(handles) < NumRoots + MaxHandles
         /\ Api(op, [key |-> key, sub_key |-> sub_key],
                [r EXCEPT !.val = Len(handles) + 1],
                Append(handles, [path |-> j.path, valid |-> TRUE]))

CloseKey ==
    /\ nops < MaxOps
    /\ \E hkey \in KeyArgs :
        IF lookup(handles, hkey) # "none" THEN Api("CloseKey", [key |-> hkey], Rejected, handles)
        ELSE Api("CloseKey", [key |-> hkey], Outcome("none", <<>>, store, <<>>), Close(handles, hkey))

ConnectRegistry ==
    /\ nops < MaxOps
    /\ \E key \in KeyArgs :
        Api("ConnectRegistry", [key |-> key], Rejected, handles)

CreateKey ==
    /\ nops < MaxOps
    /\ \E key \in KeyArgs, sub_key \in SubKeys, ok \in BOOLEAN :
        IF lookup(handles, key) # "none"
        THEN Api("CreateKey", [key |-> key, sub_key |-> sub_key], Rejected, handles)
        ELSE \E j \in {join(handles[key].path, sub_key)} :
             \E r \in {create(j.path, store, ok)} : Opened("CreateKey", key, sub_key, j, r)

\* check(), then nth_subkey(0): WindowsError from it means delete(), a
\* return means WindowsError, any other exception propagates
DeleteKeyOutcome(path, st, ok1, ok2, ok3) ==
    With(check(path, st, ok1), LAMBDA r1 :
        IF r1.err # "none" THEN r1
        ELSE With(nth_subkey(path, st, 0, ok2), LAMBDA r2 :
            IF r2.err = "WindowsError"
            THEN With(delete(path, st, ok3), LAMBDA r3 :
                    [r3 EXCEPT !.calls = r1.calls \o r2.calls \o r3.calls])
            ELSE IF r2.err = "none"
            THEN Outcome("WindowsError", <<>>, st, r1.calls \o r2.calls)
            ELSE Outcome(r2.err, <<>>, st, r1.calls \o r2.calls)))

DeleteKey ==
    /\ nops < MaxOps
    /\ \E key \in KeyArgs, sub_key \in TargetSubKeys, ok1, ok2, ok3 \in BOOLEAN :
        IF lookup(handles, key) # "none"
        THEN Api("DeleteKey", [key |-> key, sub_key |-> sub_key], Rejected, handles)
        ELSE \E r \in {DeleteKeyOutcome(join(handles[key].path, sub_key).path, store, ok1, ok2, ok3)} :
                Api("DeleteKey", [key |-> key, sub_key |-> sub_key], r, handles)

DeleteValue ==
    /\ nops < MaxOps
    /\ \E key \in KeyArgs, value \in {ApiName}, ok \in BOOLEAN :
        IF lookup(handles, key) # "none"
        THEN Api("DeleteValue", [key |-> key, name |-> value], Rejected, handles)
        ELSE \E r \in {delete_value(handles[key].path, store, value, ok)} :
                Api("DeleteValue", [key |-> key, name |-> value], r, handles)

\* nth_subkey(index).split("\\")[-1]
LastSegment(path) == With(Split(path, <<BSLASH>>), LAMBDA segs : segs[Len(segs)])

EnumKey ==
    /\ nops < MaxOps
    /\ \E key \in KeyArgs, index \in 0..1, ok \in BOOLEAN :
        IF lookup(handles, key) # "none"
        THEN Api("EnumKey", [key |-> key, n |-> index], Rejected, handles)
        ELSE \E r \in {nth_subkey(handles[key].path, store, index, ok)} :
                Api("EnumKey", [key |-> key, n |-> index],
                    IF r.err = "none" THEN [r EXCEPT !.val = LastSegment(r.val)] ELSE r, handles)

EnumValue ==
    /\ nops < MaxOps
    /\ \E key \in KeyArgs, index \in 0..1, ok \in BOOLEAN :
        IF lookup(handles, key) # "none"
        THEN Api("EnumValue", [key |-> key, n |-> index], Rejected, handles)
        ELSE \E r \in {nth_value(handles[key].path, store, index, ok)} :
                Api("EnumValue", [key |-> key, n |-> index], r, handles)

ExpandEnvironmentStrings ==
    /\ nops < MaxOps
    /\ Api("ExpandEnvironmentStrings", <<>>, Outcome("NotImplementedError", <<>>, store, <<>>), handles)

\* the body is "pass": the key is not looked up
FlushKey ==
    /\ nops < MaxOps
    /\ \E key \in KeyArgs :
        Api("FlushKey", [key |-> key], Outcome("none", <<>>, store, <<>>), handles)

LoadKey ==
    /\ nops < MaxOps
    /\ \E key \in KeyArgs, sub_key \in TargetSubKeys, file \in Files, ok \in BOOLEAN :
        IF lookup(handles, key) # "none"
        THEN Api("LoadKey", [key |-> key, sub_key |-> sub_key], Rejected, handles)
        ELSE \E r \in {load(join(handles[key].path, sub_key).path, store, file, ok)} :
                Api("LoadKey", [key |-> key, sub_key |-> sub_key], r, handles)

OpenKey ==
    /\ nops < MaxOps
    /\ \E key \in KeyArgs, sub_key \in SubKeys, ok \in BOOLEAN :
        IF lookup(handles, key) # "none"
        THEN Api("OpenKey", [key |-> key, sub_key |-> sub_key], Rejected, handles)
        ELSE \E j \in {join(handles[key].path, sub_key)} :
             \E r \in {check(j.path, store, ok)} : Opened("OpenKey", key, sub_key, j, r)

\* return self.OpenKey(key, sub_key, res, sam)
OpenKeyEx ==
    /\ nops < MaxOps
    /\ \E key \in KeyArgs, sub_key \in SubKeys, ok \in BOOLEAN :
        IF lookup(handles, key) # "none"
        THEN Api("OpenKeyEx", [key |-> key, sub_key |-> sub_key], Rejected, handles)
        ELSE \E j \in {join(handles[key].path, sub_key)} :
             \E r \in {check(j.path, store, ok)} : Opened("OpenKeyEx", key, sub_key, j, r)

QueryInfoKey ==
    /\ nops < MaxOps
    /\ \E key \in KeyArgs, ok \in BOOLEAN :
        IF lookup(handles, key) # "none"
        THEN Api("QueryInfoKey", [key |-> key], Rejected, handles)
        ELSE \E r \in {get_info(handles[key].path, store, ok)} :
                Api("QueryInfoKey", [key |-> key], r, handles)

\* get_value("")[0]
QueryValue ==
    /\ nops < MaxOps
    /\ \E key \in KeyArgs, sub_key \in TargetSubKeys, ok \in BOOLEAN :
        IF lookup(handles, key) # "none"
        THEN Api("QueryValue", [key |-> key, sub_key |-> sub_key], Rejected, handles)
        ELSE \E r \in {get_value(join(handles[key].path, sub_key).path, store, <<>>, ok)} :
                Api("QueryValue", [key |-> key, sub_key |-> sub_key],
                    IF r.err = "none" THEN [r EXCEPT !.val = r.val[1]] ELSE r, handles)

QueryValueEx ==
    /\ nops < MaxOps
    /\ \E key \in KeyArgs, value_name \in {ApiName}, ok \in BOOLEAN :
        IF lookup(handles, key) # "none"
        THEN Api("QueryValueEx", [key |-> key, name |-> value_name], Rejected, handles)
        ELSE \E r \in {get_value(handles[key].path, store, value_name, ok)} :
                Api("QueryValueEx", [key |-> key, name |-> value_name], r, handles)

SaveKey ==
    /\ nops < MaxOps
    /\ \E key \in KeyArgs, ok \in BOOLEAN :
        IF lookup(handles, key) # "none"
        THEN Api("SaveKey", [key |-> key], Rejected, handles)
        ELSE \E r \in {dump(handles[key].path, store, ok)} :
                Api("SaveKey", [key |-> key], r, handles)

SetValue ==
    /\ nops < MaxOps
    /\ \E key \in KeyArgs, sub_key \in TargetSubKeys, type \in {REG_SZ}, data \in {ApiData}, ok \in BOOLEAN :
        IF lookup(handles, key) # "none"
        THEN Api("SetValue", [key |-> key, sub_key |-> sub_key], Rejected, handles)
        ELSE \E r \in {set_value(join(handles[key].path, sub_key).path, store, <<>>, data, type, ok)} :
                Api("SetValue", [key |-> key, sub_key |-> sub_key], r, handles)

SetValueEx ==
    /\ nops < MaxOps
    /\ \E key \in KeyArgs, value_name \in {ApiName}, type \in {REG_SZ}, data \in {ApiData}, ok \in BOOLEAN :
        IF lookup(handles, key) # "none"
        THEN Api("SetValueEx", [key |-> key, name |-> value_name], Rejected, handles)
        ELSE \E r \in {set_value(handles[key].path, store, value_name, data, type, ok)} :
                Api("SetValueEx", [key |-> key, name |-> value_name], r, handles)

Next ==
    \/ CloseKey \/ ConnectRegistry \/ CreateKey \/ DeleteKey \/ DeleteValue
    \/ EnumKey \/ EnumValue \/ ExpandEnvironmentStrings \/ FlushKey \/ LoadKey
    \/ OpenKey \/ OpenKeyEx \/ QueryInfoKey \/ QueryValue \/ QueryValueEx
    \/ SaveKey \/ SetValue \/ SetValueEx

Spec == Init /\ [][Next]_vars

(* ------------------------- claims about Spec -------------------------- *)
KeyOps ==
    {"CreateKey", "OpenKey", "OpenKeyEx", "DeleteKey", "DeleteValue", "EnumKey",
     "EnumValue", "QueryInfoKey", "QueryValue", "QueryValueEx", "SetValue",
     "SetValueEx", "SaveKey", "LoadKey", "FlushKey", "CloseKey"}

\* C3: Closed is terminal, and every API operation that takes a key, called
\* with a closed handle, fails with the invalid-handle error (WindowsError
\* from lookup) and invokes the tool zero times.
C3_ClosedHandleRejected ==
    [][ nops' = nops + 1 =>
          /\ \A h \in DOMAIN handles : ~handles[h].valid => ~handles'[h].valid
          /\ (last'.op \in KeyOps /\ ~handles[last'.args.key].valid) =>
                (last'.err = "WindowsError" /\ last'.calls = <<>>) ]_vars

HasSubkey(st, path) == \E i \in 1..Len(st) : DirectChild(path, st[i].key)

ImportsOf(call) == SelectSeq(call.calls, LAMBDA c : c.mode = "import")

DeletionMarker(path) ==
    S_REGEDIT4 \o <<NL>> \o <<LBRACKET, MINUS>> \o path \o <<RBRACKET>> \o <<NL, NL>>

\* C4: DeleteKey on a target with a direct subkey fails and imports nothing
\* (the registry is unchanged); on an existing target without subkeys it
\* imports [-path], after which check() of that path fails.
C4_DeleteKey ==
    [][ (nops' = nops + 1 /\ last'.op = "DeleteKey" /\ handles[last'.args.key].valid) =>
          \E target \in {join(handles[last'.args.key].path, last'.args.sub_key).path} :
            /\ HasSubkey(store, target) =>
                  (last'.err # "none" /\ ImportsOf(last') = <<>> /\ store' = store)
            /\ (HasKey(store, target) /\ ~HasSubkey(store, target) /\ ToolOk(last')) =>
                  /\ last'.err = "none"
                  /\ ImportsOf(last') # <<>>
                  /\ ImportsOf(last')[1].text = DeletionMarker(target)
                  /\ check(target, store', TRUE).err # "none" ]_vars

\* C7: when a tool invocation of an API operation exits non-zero, the
\* operation fails with that error and invokes the tool no further.
C7_FailurePropagates ==
    \A i \in 1..Len(last.calls) :
        ~last.calls[i].ok => (i = Len(last.calls) /\ last.err = "WindowsError")

\* sub_key without its leading and trailing backslashes
Stripped(s) ==
    CHOOSE t \in {SubSeq(s, i, j) : i \in 1..(Len(s) + 1), j \in 0..Len(s)} :
        \E i \in 1..(Len(s) + 1), j \in 0..Len(s) :
            /\ i <= j + 1
            /\ t = SubSeq(s, i, j)
            /\ \A k \in 1..(i - 1) : s[k] = BSLASH
            /\ \A k \in (j + 1)..Len(s) : s[k] = BSLASH
            /\ i <= j => (s[i] # BSLASH /\ s[j] # BSLASH)

Opens == {"CreateKey", "OpenKey", "OpenKeyEx"}

\* C8: no handle's path ends in a backslash; CreateKey / OpenKey with a
\* sub_key that is empty once stripped return a handle with the parent's
\* path, and otherwise one whose path is the parent's path, one backslash and
\* the stripped sub_key.
C8_PathInvariant ==
    /\ \A h \in DOMAIN handles :
          handles[h].path # <<>> /\ handles[h].path[Len(handles[h].path)] # BSLASH
    /\ (last.op \in Opens /\ last.err = "none") =>
          handles[last.val].path =
              IF Stripped(last.args.sub_key) = <<>> THEN handles[last.args.key].path
              ELSE handles[last.args.key].path \o <<BSLASH>> \o Stripped(last.args.sub_key)

\* a handle opened below a handle that is itself not a hive, with a sub_key
\* that has backslashes to strip at both ends
C8_Witness ==
    /\ last.op \in Opens
    /\ last.err = "none"
    /\ last.args.key > NumRoots
    /\ last.args.sub_key = <<BSLASH, 97, BSLASH>>
    /\ last.val > last.args.key
    /\ Depth(handles[last.val].path) = 2

\* C10: OpenKey / CreateKey return the very handle they were given exactly
\* when sub_key is empty once stripped; CloseKey invalidates the handle it is
\* given and no other; and a handle closed that way (a hive included)
\* rejects every later operation.
C10_AliasOnClose ==
    [][ nops' = nops + 1 =>
          /\ (last'.op \in {"CreateKey", "OpenKey"} /\ last'.err = "none") =>
                (last'.val = last'.args.key <=> Stripped(last'.args.sub_key) = <<>>)
          /\ (last'.op = "CloseKey" /\ last'.err = "none") =>
                /\ ~handles'[last'.args.key].valid
                /\ \A h \in DOMAIN handles :
                      h # last'.args.key => handles'[h] = handles[h]
          /\ (last'.op \in KeyOps /\ ~handles[last'.args.key].valid) =>
                last'.err = "WindowsError" ]_vars

====
